---- MODULE Spec2Model ----
(***************************************************************************)
(* Model of ArpManager (src/native/network/arp.cpp, arp.h): the ARP        *)
(* engine, the topology resolvers and the poisoning controller, together   *)
(* with the part of the operating system and of the capture library they   *)
(* talk to (adapter list, ARP table, capture handles, transmitted frames). *)
(* Strings are tuples of one-character strings, so that the conversions    *)
(* (inet_pton, inet_ntop, macToString, stringToMac) are computed.          *)
(***************************************************************************)
EXTENDS Integers, Sequences, FiniteSets, TLC

\* ------------------------------------------------------------------ bounds
MaxPackets == 1
MaxTargets == 2
MaxHandles == 2

\* ------------------------------------------------------- characters, bytes
HexChars == <<"0","1","2","3","4","5","6","7","8","9","a","b","c","d","e","f">>

IsDecDigit(c) == \E i \in 1..10 : HexChars[i] = c

DecValue(c) == (CHOOSE i \in 1..10 : HexChars[i] = c) - 1

UpperHex == <<"A","B","C","D","E","F">>

IsHexDigit(c) == (\E i \in 1..16 : HexChars[i] = c) \/ (\E i \in 1..6 : UpperHex[i] = c)

HexValue(c) ==
    IF \E i \in 1..16 : HexChars[i] = c
    THEN (CHOOSE i \in 1..16 : HexChars[i] = c) - 1
    ELSE (CHOOSE i \in 1..6 : UpperHex[i] = c) + 9

IsSpace(c) == c \in {" ", "\t", "\n", "\r"}

SubStr(s, pos, n) ==
    [i \in 1..(IF Len(s) - pos < n THEN (IF Len(s) - pos < 0 THEN 0 ELSE Len(s) - pos) ELSE n)
        |-> s[pos + i]]

\* std::stoi(byte_str, nullptr, 16) on a string of at most two characters:
\* leading white space is skipped, one sign is accepted, the longest run of
\* hex digits is converted; -1000 stands for the std::invalid_argument throw.
StoiThrows == -1000

stoi16(b) ==
    IF Len(b) = 0 THEN StoiThrows
    ELSE IF IsHexDigit(b[1])
    THEN IF Len(b) >= 2 /\ IsHexDigit(b[2])
         THEN 16 * HexValue(b[1]) + HexValue(b[2])
         ELSE HexValue(b[1])
    ELSE IF Len(b) >= 2 /\ IsHexDigit(b[2])
    THEN IF IsSpace(b[1]) \/ b[1] = "+" THEN HexValue(b[2])
         ELSE IF b[1] = "-" THEN 0 - HexValue(b[2])
         ELSE StoiThrows
    ELSE StoiThrows

\* static_cast<uint8_t>(int)
ToUint8(n) == n % 256

NoBytes == <<>>

stringToMac(mac_str) ==
    IF Len(mac_str) # 17 THEN [ok |-> FALSE, bytes |-> NoBytes]
    ELSE LET v == [i \in 1..6 |-> stoi16(SubStr(mac_str, (i - 1) * 3, 2))]
         IN  IF \E i \in 1..6 : v[i] = StoiThrows
             THEN [ok |-> FALSE, bytes |-> NoBytes]
             ELSE [ok |-> TRUE, bytes |-> [i \in 1..6 |-> ToUint8(v[i])]]

Hex2(b) == <<HexChars[(b \div 16) + 1], HexChars[(b % 16) + 1]>>

macToString(mac) ==
    Hex2(mac[1]) \o <<":">> \o Hex2(mac[2]) \o <<":">> \o Hex2(mac[3]) \o <<":">> \o
    Hex2(mac[4]) \o <<":">> \o Hex2(mac[5]) \o <<":">> \o Hex2(mac[6])

RECURSIVE ToDec(_)
ToDec(n) ==
    IF n < 10 THEN <<HexChars[n + 1]>>
    ELSE ToDec(n \div 10) \o <<HexChars[(n % 10) + 1]>>

inet_ntop(a) ==
    ToDec(a[1]) \o <<".">> \o ToDec(a[2]) \o <<".">> \o ToDec(a[3]) \o <<".">> \o ToDec(a[4])

\* inet_pton(AF_INET, ...): four decimal parts of one to three digits, each
\* at most 255, separated by single dots; NoBytes when the text is rejected.
RECURSIVE ParseQuad(_, _, _, _, _)
ParseQuad(s, i, digits, val, acc) ==
    IF i > Len(s)
    THEN IF digits >= 1 /\ val <= 255 /\ Len(acc) = 3 THEN Append(acc, val) ELSE NoBytes
    ELSE IF IsDecDigit(s[i])
    THEN IF digits = 3 THEN NoBytes
         ELSE ParseQuad(s, i + 1, digits + 1, val * 10 + DecValue(s[i]), acc)
    ELSE IF s[i] = "."
    THEN IF digits = 0 \/ val > 255 \/ Len(acc) = 3 THEN NoBytes
         ELSE ParseQuad(s, i + 1, 0, 0, Append(acc, val))
    ELSE NoBytes

inet_pton(s) == ParseQuad(s, 1, 0, 0, <<>>)

stringToIp(ip_str) ==
    LET a == inet_pton(ip_str)
    IN  [ok |-> a # NoBytes, bytes |-> a]

\* ------------------------------------------------------------- wire format
\* htons(v) written to memory: the two bytes of v, most significant first.
\* The bytes of a uint16_t as a little-endian host stores it.
hostOrder(v) == <<v % 256, v \div 256>>

htons(v) == <<v \div 256, v % 256>>

\* The 42 bytes of struct ArpFrame (EthernetHeader, then ArpPacket; every
\* member is 1- or 2-byte aligned, so the struct has no padding).
ArpFrame(dest_mac, src_mac, operation, sender_mac, sender_ip, target_mac, target_ip) ==
    dest_mac \o src_mac \o htons(2054) \o
    htons(1) \o htons(2048) \o <<6>> \o <<4>> \o htons(operation) \o
    sender_mac \o sender_ip \o target_mac \o target_ip

BroadcastMac == <<255, 255, 255, 255, 255, 255>>

ZeroMac == <<0, 0, 0, 0, 0, 0>>

ZeroMacStr == macToString(ZeroMac)

EmptyStr == <<>>

NpfPrefix == <<"\\", "D", "e", "v", "i", "c", "e", "\\", "N", "P", "F", "_">>

\* A uint32_t is a tuple of 32 bits, most significant first.
AllOnes == [i \in 1..32 |-> 1]

AllZeros == [i \in 1..32 |-> 0]

ShiftLeft(v, n) == [i \in 1..32 |-> IF i + n <= 32 THEN v[i + n] ELSE 0]

ByteBits(b) == [i \in 1..8 |-> (b \div (2 ^ (8 - i))) % 2]

BitsByte(v, k) ==
    LET b(i) == v[8 * (k - 1) + i]
    IN  128 * b(1) + 64 * b(2) + 32 * b(3) + 16 * b(4) + 8 * b(5) + 4 * b(6) + 2 * b(7) + b(8)

\* uint32_t mask = 0xFFFFFFFF << (32 - prefix): a shift by 32 (prefix 0) is
\* undefined; the builds in use leave the value unshifted or produce 0.
UbShiftResults == {AllZeros, AllOnes}

ShiftMask(prefix, ub_shift) ==
    IF prefix = 0 THEN ub_shift ELSE ShiftLeft(AllOnes, 32 - prefix)

\* htonl(mask) stored in in_addr: the bytes of mask, most significant first.
htonl(v) == <<BitsByte(v, 1), BitsByte(v, 2), BitsByte(v, 3), BitsByte(v, 4)>>

\* in_addr.s_addr read as a uint32_t on the little-endian hosts the code
\* builds for: the first octet is the least significant byte.
SAddr(bytes) ==
    ByteBits(bytes[4]) \o ByteBits(bytes[3]) \o ByteBits(bytes[2]) \o ByteBits(bytes[1])

\* while (mask & 0x80000000) { cidr++; mask <<= 1; }
RECURSIVE CountLeadingOnes(_)
CountLeadingOnes(mask) ==
    IF mask[1] = 1 THEN 1 + CountLeadingOnes(ShiftLeft(mask, 1)) ELSE 0

\* The CIDR computation of the primary resolver; when inet_pton rejects the
\* mask text, mask_addr is read uninitialized (garbage).
SubnetCidr(subnet_mask, garbage) ==
    IF inet_pton(subnet_mask) = NoBytes THEN CountLeadingOnes(garbage)
    ELSE CountLeadingOnes(SAddr(inet_pton(subnet_mask)))

\* std::string::find(needle) != npos
Contains(hay, needle) ==
    \E k \in 0..(Len(hay) - Len(needle)) : SubStr(hay, k, Len(needle)) = needle

\* find_last_of('_') + 1, as a 0-based position
GuidStart(device_name) ==
    (CHOOSE k \in 1..Len(device_name) :
        /\ device_name[k] = "_"
        /\ \A j \in (k + 1)..Len(device_name) : device_name[j] # "_")

DeviceMatchesExactly(device_name, windows_adapter_name) ==
    /\ SubStr(device_name, 0, Len(NpfPrefix)) = NpfPrefix
    /\ SubStr(device_name, GuidStart(device_name), Len(device_name)) = windows_adapter_name

DeviceMatches(device_name, windows_adapter_name) ==
    /\ SubStr(device_name, 0, Len(NpfPrefix)) = NpfPrefix
    /\ LET device_guid == SubStr(device_name, GuidStart(device_name), Len(device_name))
       IN  \/ Contains(windows_adapter_name, device_guid)
           \/ Contains(device_guid, windows_adapter_name)

mapAdapterNameToPcap(windows_adapter_name, alldevs) ==
    IF \E i \in 1..Len(alldevs) : DeviceMatches(alldevs[i], windows_adapter_name)
    THEN alldevs[CHOOSE i \in 1..Len(alldevs) :
                    /\ DeviceMatches(alldevs[i], windows_adapter_name)
                    /\ \A j \in 1..(i - 1) : ~DeviceMatches(alldevs[j], windows_adapter_name)]
    ELSE EmptyStr

\* ------------------------------------------------------------- environment
OurMac == <<170, 187, 204, 221, 238, 255>>

LocalAddr == <<192, 168, 1, 10>>

GatewayAddr == <<192, 168, 1, 1>>

GatewayHw == <<17, 34, 51, 68, 85, 102>>

NameA == <<"{", "A", "B", "C", "-", "1", "2", "3", "}">>

NameB == <<"{", "X", "Y", "Z", "-", "7", "8", "9", "}">>

NameLo == <<"{", "L", "O", "}">>

NameQ == <<"{", "Q", "Q", "Q", "}">>

\* Adapter names known to the tables below; initialize is called with the
\* routed adapter and with a name no adapter has.
AdapterNames == {NameA, NameB, NameQ}

InitializeArgs == {NameA, NameQ}

PcapDevices == <<NpfPrefix \o NameA, NpfPrefix \o NameB>>

OsAdapter(name, loopback, up, prefix, gateways) ==
    [AdapterName |-> name, loopback |-> loopback, OperStatusUp |-> up,
     PhysicalAddress |-> IF loopback THEN <<>> ELSE OurMac,
     FirstUnicastAddress |-> <<[addr |-> LocalAddr, OnLinkPrefixLength |-> prefix]>>,
     FirstGatewayAddress |-> gateways]

\* Adapter A with a default gateway, adapter B without one.
OsRouted(prefix, always) ==
    [adapters |-> <<OsAdapter(NameLo, TRUE, TRUE, 8, <<>>),
                    OsAdapter(NameB, FALSE, TRUE, prefix, <<>>),
                    OsAdapter(NameA, FALSE, TRUE, prefix, <<GatewayAddr>>)>>,
     gateways_always |-> always,
     id |-> 2 * prefix + (IF always THEN 1 ELSE 0)]

\* No adapter has a default gateway.
OsIsolated ==
    [adapters |-> <<OsAdapter(NameLo, TRUE, TRUE, 8, <<>>),
                    OsAdapter(NameB, FALSE, TRUE, 24, <<>>),
                    OsAdapter(NameA, FALSE, FALSE, 24, <<>>)>>,
     gateways_always |-> TRUE,
     id |-> -1]

OsScenarios == {OsRouted(24, TRUE), OsRouted(24, FALSE), OsIsolated}

\* Adapter A has a default gateway and no IPv4 address; adapter B has both.
OsSplit ==
    [adapters |-> <<OsAdapter(NameLo, TRUE, TRUE, 8, <<>>),
                    [OsAdapter(NameA, FALSE, TRUE, 24, <<GatewayAddr>>)
                        EXCEPT !.FirstUnicastAddress = <<>>],
                    OsAdapter(NameB, FALSE, TRUE, 24, <<GatewayAddr>>)>>,
     gateways_always |-> TRUE,
     id |-> -2]

\* The systems initialize is studied on by itself.
InitScenarios == OsScenarios \cup {OsSplit}

\* One system per prefix length, for the prefix computation.
MaskScenarios == {OsRouted(p, TRUE) : p \in 0..32}

OsAll == InitScenarios \cup MaskScenarios

\* The systems by their id, the key of the tables below.
OsById == [i \in {o.id : o \in OsAll} |-> CHOOSE o \in OsAll : o.id = i]

OtherAddr == <<192, 168, 1, 77>>

OtherHw == <<2, 0, 0, 0, 0, 9>>

VictimIp == inet_ntop(<<192, 168, 1, 50>>)

SecondIp == inet_ntop(<<192, 168, 1, 5>>)

BadIp == <<"1", "9", "2", ".", "1", "6", "8", ".", "1">>

VictimHw == <<222, 173, 190, 239, 0, 1>>

VictimMac == macToString(VictimHw)

BadMac == <<"d", "e", ":", "a", "d">>

TargetIps == {VictimIp, SecondIp, BadIp}

TargetMacs == {VictimMac, BadMac}

\* Seventeen characters whose first byte text is a digit followed by a
\* letter that is not a hex digit.
LenientMac ==
    <<"1", "g", ":", "a", "d", ":", "b", "e", ":", "e", "f", ":", "0", "0", ":", "0", "1">>

SendMacs == TargetMacs \cup {LenientMac}

\* The arguments of start_poisoning.
StartArgs == {<<VictimIp, VictimMac>>, <<SecondIp, BadMac>>}

GarbageCidrs == {0, 9}

GarbageMasks == {AllZeros, ShiftLeft(AllOnes, 24)}

HasZeroPrefix(o) ==
    \E i \in 1..Len(o.adapters) :
        /\ Len(o.adapters[i].FirstUnicastAddress) > 0
        /\ o.adapters[i].FirstUnicastAddress[1].OnLinkPrefixLength = 0

ShiftChoices(o) == IF HasZeroPrefix(o) THEN UbShiftResults ELSE {AllZeros}

Routed(o) ==
    \E i \in 1..Len(o.adapters) :
        o.adapters[i].OperStatusUp /\ Len(o.adapters[i].FirstGatewayAddress) > 0

CidrChoices(o) == IF Routed(o) THEN {0} ELSE GarbageCidrs

TableAbsent == <<[dwAddr |-> OtherAddr, bPhysAddr |-> OtherHw]>>

TableResolved ==
    <<[dwAddr |-> OtherAddr, bPhysAddr |-> OtherHw],
      [dwAddr |-> GatewayAddr, bPhysAddr |-> GatewayHw]>>

TableIncomplete == <<[dwAddr |-> GatewayAddr, bPhysAddr |-> ZeroMac]>>

\* ARP tables: the gateway absent, present, or present as an incomplete
\* (all-zero) row.
ArpTables == {TableAbsent, TableResolved, TableIncomplete}

\* The ARP table at the four reads one initialize makes (topology
\* resolution, then the three attempts of the retry loop): it stays as it is
\* or the gateway is learned before one of the reads.
InitTableRuns(o) ==
    IF ~Routed(o) THEN {[i \in 1..4 |-> TableAbsent]}
    ELSE {[i \in 1..4 |-> t] : t \in ArpTables}
         \cup {[i \in 1..4 |-> IF i <= k THEN TableAbsent ELSE TableResolved] : k \in 1..3}

\* ------------------------------------------------- tabulated conversions
\* The conversions above, tabulated over the strings and addresses that
\* occur in the environment and in the arguments of the calls.
HwAddrs == {OurMac, GatewayHw, OtherHw, ZeroMac, VictimHw}

macToStringTable == [h \in HwAddrs |-> macToString(h)]

MacStrings == {macToString(h) : h \in HwAddrs} \cup SendMacs \cup {EmptyStr}

stringToMacTable == [x \in MacStrings |-> stringToMac(x)]

PrefixMaskTable ==
    [p \in 0..32, u \in UbShiftResults |-> inet_ntop(htonl(ShiftMask(p, u)))]

MaskStrings == {PrefixMaskTable[p, u] : p \in 0..32, u \in UbShiftResults}

InetAddrs == {LocalAddr, GatewayAddr, OtherAddr, <<0, 0, 0, 0>>}

inet_ntopTable == [a \in InetAddrs |-> inet_ntop(a)]

IpStrings == {inet_ntop(a) : a \in InetAddrs} \cup TargetIps \cup {EmptyStr}

stringToIpTable == [x \in IpStrings |-> stringToIp(x)]

SubnetCidrTable ==
    [x \in MaskStrings \cup {EmptyStr}, g \in GarbageMasks |-> SubnetCidr(x, g)]

mapAdapterNameToPcapTable == [n \in AdapterNames |-> mapAdapterNameToPcap(n, PcapDevices)]

\* ------------------------------------------------------------ diagnostics
ErrNotInitialized == "ARP Manager not initialized"

ErrNotInitializedPoisoning == "ARP Manager not properly initialized for poisoning operations"

ErrInvalidTargetIp == "Invalid target IP address"

ErrInvalidLocalConfig == "Invalid local network configuration"

ErrNoHandle == "Pcap handle not available - ensure proper adapter initialization"

ErrSendRequestFailed == "Failed to send ARP request"

ErrInvalidReplyParams == "Invalid parameters for ARP reply"

ErrSendReplyFailed == "Failed to send ARP reply"

ErrInvalidPoisonParams == "Invalid parameters for ARP poisoning"

ErrSendPoisonFailed == "Failed to send ARP poisoning packet"

ErrInvalidAdapter == "Invalid adapter name"

ErrAdapterNotFound == "Adapter not found"

ErrTopology == "Failed to discover network topology using any method"

\* ------------------------------------------------------------ object state
\* Sequencing: the value v of one statement, then the statements F that use it.
Then(v, F(_)) == F(v)

VARIABLES
    pcap_handle,        \* 0 is nullptr, otherwise the id of a capture handle
    is_initialized,
    network_info,
    poisoning_targets,
    poisoning_active,
    perf_stats,
    last_error,
    lifecycle,          \* "alive", "destroyed" (destructor ran) or "crashed"
    sent,               \* frames accepted by pcap_sendpacket during the last call, in order
    open_handles,       \* the capture handles the library holds open
    double_close,       \* pcap_close was given a handle that is not open
    cleaned_up,         \* cleanup ran and no initialize has succeeded since
    events,             \* the discoverGatewayMac and Sleep calls made during the last call
    lastOp              \* the last public call: its name, arguments and result

vars == <<pcap_handle, is_initialized, network_info, poisoning_targets, poisoning_active,
          perf_stats, last_error, lifecycle, sent, open_handles, double_close,
          cleaned_up, events, lastOp>>

\* The members of the object and the observable effects as one record, so
\* that a method is an operator from this record to the record after it; a
\* call starts with nothing transmitted yet.
Cur ==
    [pcap_handle |-> pcap_handle, is_initialized |-> is_initialized,
     network_info |-> network_info, poisoning_targets |-> poisoning_targets,
     poisoning_active |-> poisoning_active, perf_stats |-> perf_stats,
     last_error |-> last_error, lifecycle |-> lifecycle, sent |-> <<>>,
     open_handles |-> open_handles, double_close |-> double_close,
     cleaned_up |-> cleaned_up, events |-> <<>>]

Commit(m) ==
    /\ pcap_handle' = m.pcap_handle
    /\ is_initialized' = m.is_initialized
    /\ network_info' = m.network_info
    /\ poisoning_targets' = m.poisoning_targets
    /\ poisoning_active' = m.poisoning_active
    /\ perf_stats' = m.perf_stats
    /\ last_error' = m.last_error
    /\ lifecycle' = m.lifecycle
    /\ sent' = m.sent
    /\ open_handles' = m.open_handles
    /\ double_close' = m.double_close
    /\ cleaned_up' = m.cleaned_up
    /\ events' = m.events

\* A call of the object on itself or of the system, recorded in order.
Log(m, call, arg, ret) ==
    [m EXCEPT !.events = Append(@, [call |-> call, arg |-> arg, ret |-> ret])]

\* Sleep(ms)
Sleep(m, ms) == Log(m, "Sleep", ms, <<>>)

setError(m, error) == [m EXCEPT !.last_error = error]

updatePerformanceStatsEither(m, success) ==
    [m EXCEPT !.perf_stats =
        [packets_sent |-> IF success THEN @.packets_sent + 1 ELSE @.packets_sent,
         send_errors |-> IF success THEN @.send_errors ELSE @.send_errors + 1]]

updatePerformanceStats(m, success) ==
    [m EXCEPT !.perf_stats =
        [packets_sent |-> @.packets_sent + 1,
         send_errors |-> IF success THEN @.send_errors ELSE @.send_errors + 1]]

\* pcap_sendpacket(handle, frame): the frame goes out when the library
\* accepts it (ok); result 0 on success.
pcap_sendpacket(m, frame, ok) ==
    [m |-> IF ok THEN [m EXCEPT !.sent = Append(@, frame)] ELSE m,
     result |-> IF ok THEN 0 ELSE -1]

cleanupFlagOnly(m) == [m EXCEPT !.is_initialized = FALSE, !.cleaned_up = TRUE]

cleanupHandleOnly(m) ==
    [(IF m.pcap_handle # 0
      THEN [m EXCEPT !.open_handles = @ \ {m.pcap_handle}, !.pcap_handle = 0]
      ELSE m) EXCEPT !.cleaned_up = TRUE]

\* pcap_close(handle): the library releases the handle; closing a handle
\* that is not open is a double close.
pcap_close(m, handle) ==
    [m EXCEPT !.open_handles = @ \ {handle},
              !.double_close = @ \/ handle \notin m.open_handles]

cleanup(m) ==
    [(IF m.pcap_handle # 0
      THEN [pcap_close(m, m.pcap_handle) EXCEPT !.pcap_handle = 0]
      ELSE m) EXCEPT !.is_initialized = FALSE, !.cleaned_up = TRUE]

ZeroStats == [packets_sent |-> 0, send_errors |-> 0]

resetPerformanceStats(m) == [m EXCEPT !.perf_stats = ZeroStats]

\* pcap_geterr(nullptr) is undefined: the build either faults or yields a
\* garbage diagnostic.
UbOutcomes == {"garbage", "crash"}

sendArpRequest(m, target_ip, ok, ub) ==
    IF ~m.is_initialized
    THEN [m |-> setError(m, ErrNotInitialized), ret |-> FALSE]
    ELSE IF ~stringToIpTable[target_ip].ok
    THEN [m |-> setError(m, ErrInvalidTargetIp), ret |-> FALSE]
    ELSE IF ~stringToIpTable[m.network_info.local_ip].ok
            \/ ~stringToMacTable[m.network_info.interface_mac].ok
    THEN [m |-> setError(m, ErrInvalidLocalConfig), ret |-> FALSE]
    ELSE
      Then(stringToMacTable[m.network_info.interface_mac].bytes, LAMBDA local_mac_bytes :
      Then(ArpFrame(BroadcastMac, local_mac_bytes, 1,
                    local_mac_bytes, stringToIpTable[m.network_info.local_ip].bytes,
                    ZeroMac, stringToIpTable[target_ip].bytes), LAMBDA frame :
      Then(IF m.pcap_handle # 0
           THEN pcap_sendpacket(m, frame, ok)
           ELSE [m |-> setError(m, ErrNoHandle), result |-> -1], LAMBDA s :
      Then(s.result = 0, LAMBDA success :
      Then(updatePerformanceStats(s.m, success), LAMBDA m2 :
           [m |-> IF success THEN m2
                  ELSE IF m.pcap_handle # 0 \/ ub = "garbage"
                  THEN setError(m2, ErrSendRequestFailed)
                  ELSE [m2 EXCEPT !.lifecycle = "crashed"],
            ret |-> success])))))

sendArpReply(m, sender_ip, target_ip, sender_mac, target_mac, ok) ==
    IF ~m.is_initialized
    THEN [m |-> setError(m, ErrNotInitialized), ret |-> FALSE]
    ELSE IF ~stringToIpTable[sender_ip].ok \/ ~stringToIpTable[target_ip].ok
            \/ ~stringToMacTable[sender_mac].ok \/ ~stringToMacTable[target_mac].ok
    THEN [m |-> setError(m, ErrInvalidReplyParams), ret |-> FALSE]
    ELSE
      Then(ArpFrame(stringToMacTable[target_mac].bytes, stringToMacTable[sender_mac].bytes, 2,
                    stringToMacTable[sender_mac].bytes, stringToIpTable[sender_ip].bytes,
                    stringToMacTable[target_mac].bytes, stringToIpTable[target_ip].bytes),
           LAMBDA frame :
      Then(IF m.pcap_handle # 0
           THEN pcap_sendpacket(m, frame, ok)
           ELSE [m |-> setError(m, ErrNoHandle), result |-> -1], LAMBDA s :
      Then(s.result = 0, LAMBDA success :
      Then(updatePerformanceStats(s.m, success), LAMBDA m2 :
           [m |-> IF ~success /\ m.pcap_handle # 0
                  THEN setError(m2, ErrSendReplyFailed)
                  ELSE m2,
            ret |-> success]))))

poisonArpCache(m, victim_ip, victim_mac, spoof_ip, our_mac, ok) ==
    IF ~m.is_initialized \/ m.pcap_handle = 0
    THEN [m |-> setError(m, ErrNotInitializedPoisoning), ret |-> FALSE]
    ELSE IF ~stringToIpTable[victim_ip].ok \/ ~stringToIpTable[spoof_ip].ok
            \/ ~stringToMacTable[victim_mac].ok \/ ~stringToMacTable[our_mac].ok
    THEN [m |-> setError(m, ErrInvalidPoisonParams), ret |-> FALSE]
    ELSE
      Then(ArpFrame(stringToMacTable[victim_mac].bytes, stringToMacTable[our_mac].bytes, 2,
                    stringToMacTable[our_mac].bytes, stringToIpTable[spoof_ip].bytes,
                    stringToMacTable[victim_mac].bytes, stringToIpTable[victim_ip].bytes),
           LAMBDA frame :
      Then(pcap_sendpacket(m, frame, ok), LAMBDA s :
      Then(s.result = 0, LAMBDA success :
      Then(updatePerformanceStats(s.m, success), LAMBDA m2 :
           [m |-> IF ~success THEN setError(m2, ErrSendPoisonFailed) ELSE m2,
            ret |-> success]))))

\* ------------------------------------------------------- gateway discovery
\* The scan of MIB_IPNETTABLE: the MAC of the first row whose dwAddr is the
\* address, as text; EmptyStr when no row matches.
LookupArpTable(table, addr) ==
    IF \E i \in 1..Len(table) : table[i].dwAddr = addr
    THEN macToStringTable[table[CHOOSE i \in 1..Len(table) :
                              /\ table[i].dwAddr = addr
                              /\ \A j \in 1..(i - 1) : table[j].dwAddr # addr].bPhysAddr]
    ELSE EmptyStr

\* table is the ARP table at the first read, table2 the table at the read
\* that follows Sleep(500); slept tells whether that second read happened.
discoverGatewayMac(m, gateway_ip, table, ok, table2) ==
    Then(stringToIpTable[gateway_ip].bytes, LAMBDA gateway_addr :
    Then(
    IF gateway_addr = NoBytes
    THEN [m |-> m, ret |-> EmptyStr, slept |-> FALSE]
    ELSE
    Then(LookupArpTable(table, gateway_addr), LAMBDA found :
    IF found # EmptyStr
    THEN [m |-> m, ret |-> found, slept |-> FALSE]
    ELSE IF m.pcap_handle # 0
    THEN Then(sendArpRequest(m, gateway_ip, ok, "garbage"), LAMBDA r :
         IF r.ret
         THEN [m |-> Sleep(r.m, 500),
               ret |-> LookupArpTable(table2, gateway_addr), slept |-> TRUE]
         ELSE [m |-> r.m, ret |-> EmptyStr, slept |-> FALSE])
    ELSE [m |-> m, ret |-> EmptyStr, slept |-> FALSE]), LAMBDA d :
    [m |-> Log(d.m, "discoverGatewayMac", gateway_ip, d.ret),
     ret |-> d.ret, slept |-> d.slept]))

refreshGatewayMac(m, table, ok, table2) ==
    IF ~m.is_initialized \/ m.network_info.gateway_ip = EmptyStr
    THEN [m |-> m, ret |-> FALSE, slept |-> FALSE]
    ELSE Then(discoverGatewayMac(m, m.network_info.gateway_ip, table, ok, table2), LAMBDA d :
         IF d.ret # EmptyStr /\ d.ret # ZeroMacStr
         THEN [m |-> [d.m EXCEPT !.network_info.gateway_mac = d.ret],
               ret |-> TRUE, slept |-> d.slept]
         ELSE [m |-> d.m, ret |-> FALSE, slept |-> d.slept])

\* ------------------------------------------------ adapters and topology
\* GetAdaptersAddresses: the adapter list; FirstGatewayAddress is filled in
\* when GAA_FLAG_INCLUDE_GATEWAYS is passed, and without the flag only on a
\* system that reports gateways regardless (os.gateways_always).
GetAdaptersAddresses(o, include_gateways) ==
    [i \in 1..Len(o.adapters) |->
        IF include_gateways \/ o.gateways_always THEN o.adapters[i]
        ELSE [o.adapters[i] EXCEPT !.FirstGatewayAddress = <<>>]]

enumerateAdapters(o, ub_shift) ==
    LET raw == GetAdaptersAddresses(o, FALSE)
        NotLoopback(a) == ~a.loopback
        kept == SelectSeq(raw, NotLoopback)
        conv(a) ==
            [name |-> a.AdapterName,
             is_active |-> a.OperStatusUp,
             mac_address |-> IF Len(a.PhysicalAddress) = 6
                             THEN macToStringTable[a.PhysicalAddress] ELSE ZeroMacStr,
             ip_address |-> IF Len(a.FirstUnicastAddress) > 0
                            THEN inet_ntopTable[a.FirstUnicastAddress[1].addr] ELSE EmptyStr,
             subnet_mask |-> IF Len(a.FirstUnicastAddress) > 0
                             THEN PrefixMaskTable[
                                      a.FirstUnicastAddress[1].OnLinkPrefixLength, ub_shift]
                             ELSE EmptyStr,
             gateway |-> IF Len(a.FirstGatewayAddress) > 0
                         THEN inet_ntopTable[a.FirstGatewayAddress[1]] ELSE EmptyStr]
    IN  [i \in 1..Len(kept) |-> conv(kept[i])]

\* The adapter list, tabulated over the systems of the environment.
enumerateAdaptersTable ==
    [i \in DOMAIN OsById, u \in UbShiftResults |-> enumerateAdapters(OsById[i], u)]

GetAdaptersAddressesTable ==
    [i \in DOMAIN OsById, f \in BOOLEAN |-> GetAdaptersAddresses(OsById[i], f)]

validateAdapter(o, adapter_name) ==
    LET adapters == enumerateAdaptersTable[o.id, AllZeros]
    IN  \E i \in 1..Len(adapters) : adapters[i].name = adapter_name

DefaultNetworkInfo ==
    [local_ip |-> EmptyStr, subnet_mask |-> EmptyStr, gateway_ip |-> EmptyStr,
     gateway_mac |-> EmptyStr, interface_name |-> EmptyStr, interface_mac |-> EmptyStr,
     subnet_cidr |-> 0, is_valid |-> FALSE]

discoverNetworkTopology(m, adapter_name, o, table, ub_shift, garbage) ==
    Then(enumerateAdaptersTable[o.id, ub_shift], LAMBDA adapters :
    IF ~\E i \in 1..Len(adapters) : adapters[i].name = adapter_name
    THEN [m |-> setError(m, ErrAdapterNotFound), info |-> DefaultNetworkInfo]
    ELSE
      Then(adapters[CHOOSE i \in 1..Len(adapters) :
                        /\ adapters[i].name = adapter_name
                        /\ \A j \in 1..(i - 1) : adapters[j].name # adapter_name],
           LAMBDA adapter :
      Then(IF adapter.gateway # EmptyStr /\ adapter.gateway # inet_ntopTable[<<0, 0, 0, 0>>]
           THEN discoverGatewayMac(m, adapter.gateway, table, FALSE, table)
           ELSE [m |-> m, ret |-> EmptyStr, slept |-> FALSE], LAMBDA d :
          [m |-> d.m,
           info |-> [local_ip |-> adapter.ip_address,
                     subnet_mask |-> adapter.subnet_mask,
                     gateway_ip |-> adapter.gateway,
                     gateway_mac |-> d.ret,
                     interface_name |-> adapter.name,
                     interface_mac |-> adapter.mac_address,
                     subnet_cidr |-> SubnetCidrTable[adapter.subnet_mask, garbage],
                     is_valid |-> adapter.ip_address # EmptyStr /\ adapter.gateway # EmptyStr]])))

\* The adapter the alternative scan takes: up, with an address and a gateway.
HasGateway(a) ==
    a.OperStatusUp /\ Len(a.FirstUnicastAddress) > 0 /\ Len(a.FirstGatewayAddress) > 0

\* NetworkInfo info; leaves subnet_cidr indeterminate (garbage_cidr) until the
\* loop finds an adapter.
discoverNetworkTopologyAlternative(m, o, table, ub_shift, garbage_cidr) ==
    Then(GetAdaptersAddressesTable[o.id, TRUE], LAMBDA raw :
    IF ~\E i \in 1..Len(raw) : HasGateway(raw[i])
    THEN [m |-> m, info |-> [DefaultNetworkInfo EXCEPT !.subnet_cidr = garbage_cidr]]
    ELSE
      Then(raw[CHOOSE i \in 1..Len(raw) :
                  HasGateway(raw[i]) /\ \A j \in 1..(i - 1) : ~HasGateway(raw[j])],
           LAMBDA a :
      Then(inet_ntopTable[a.FirstGatewayAddress[1]], LAMBDA gateway_ip :
      Then(discoverGatewayMac(m, gateway_ip, table, FALSE, table), LAMBDA d :
          [m |-> d.m,
           info |-> [local_ip |-> inet_ntopTable[a.FirstUnicastAddress[1].addr],
                     subnet_mask |-> PrefixMaskTable[
                                        a.FirstUnicastAddress[1].OnLinkPrefixLength, ub_shift],
                     gateway_ip |-> gateway_ip,
                     gateway_mac |-> IF d.ret = EmptyStr THEN ZeroMacStr ELSE d.ret,
                     interface_name |-> EmptyStr,
                     interface_mac |-> IF Len(a.PhysicalAddress) = 6
                                       THEN macToStringTable[a.PhysicalAddress] ELSE ZeroMacStr,
                     subnet_cidr |-> a.FirstUnicastAddress[1].OnLinkPrefixLength,
                     is_valid |-> TRUE]]))))

\* -------------------------------------------------------------- initialize
GatewayUnresolved(info) == info.gateway_mac = EmptyStr \/ info.gateway_mac = ZeroMacStr

\* A loop that runs its three attempts whatever they return.
RECURSIVE RetryLoopAlways(_, _, _)
RetryLoopAlways(m, retry, tseq) ==
    IF retry < 3
    THEN Then(discoverGatewayMac(m, m.network_info.gateway_ip,
                                 tseq[retry + 1], FALSE, tseq[retry + 1]), LAMBDA d :
         RetryLoopAlways(Sleep(IF d.ret # EmptyStr /\ d.ret # ZeroMacStr
                               THEN [d.m EXCEPT !.network_info.gateway_mac = d.ret]
                               ELSE d.m, 500 * (retry + 1)), retry + 1, tseq))
    ELSE [m |-> m, attempts |-> retry]

\* The retry loop of initialize: attempt retry + 1 reads tseq[retry + 1], the
\* ARP table at that moment (the Sleep calls let it change in between).
RECURSIVE RetryLoop(_, _, _)
RetryLoop(m, retry, tseq) ==
    IF retry < 3 /\ GatewayUnresolved(m.network_info)
    THEN Then(discoverGatewayMac(m, m.network_info.gateway_ip,
                                 tseq[retry + 1], FALSE, tseq[retry + 1]), LAMBDA d :
         IF d.ret # EmptyStr /\ d.ret # ZeroMacStr
         THEN [m |-> [d.m EXCEPT !.network_info.gateway_mac = d.ret],
               attempts |-> retry + 1]
         ELSE RetryLoop(Sleep(d.m, 500 * (retry + 1)), retry + 1, tseq))
    ELSE [m |-> m, attempts |-> retry]

\* pcap_open_live succeeds (open_ok) only on the name of a capture device
\* and while the library has a handle left to give; the handle it returns
\* is one that is not open (the address of a closed handle can come back).
\* The result is assigned to pcap_handle whatever that held before.
FreeHandles(m) == (1..MaxHandles) \ m.open_handles

pcap_open_live(m, device, alldevs, open_ok) ==
    IF open_ok /\ (\E i \in 1..Len(alldevs) : alldevs[i] = device) /\ FreeHandles(m) # {}
    THEN LET h == CHOOSE h \in FreeHandles(m) : \A g \in FreeHandles(m) : h <= g
         IN  [m EXCEPT !.open_handles = @ \cup {h}, !.pcap_handle = h]
    ELSE [m EXCEPT !.pcap_handle = 0]

initializeNoCleanup(m) == m

\* if (is_initialized) cleanup();
initializeCleanup(m) == IF m.is_initialized THEN cleanup(m) ELSE m

initializeKeepsHandle(m, adapter_name, o, alldevs, open_ok, table, tseq, ub_shift, garbage, garbage_cidr) ==
    Then(initializeCleanup(m), LAMBDA m0 :
    IF ~validateAdapter(o, adapter_name)
    THEN [m |-> setError(m0, ErrInvalidAdapter), ret |-> FALSE, attempts |-> 0]
    ELSE
    Then(mapAdapterNameToPcapTable[adapter_name], LAMBDA mapped :
    Then(IF mapped = EmptyStr THEN adapter_name ELSE mapped, LAMBDA pcap_device_name :
    Then(pcap_open_live(m0, pcap_device_name, alldevs, open_ok), LAMBDA m1 :
    Then(discoverNetworkTopology(m1, adapter_name, o, table, ub_shift, garbage), LAMBDA t1 :
    Then([t1.m EXCEPT !.network_info = t1.info], LAMBDA m2 :
    Then(IF t1.info.is_valid THEN t1
         ELSE discoverNetworkTopologyAlternative(m2, o, table, ub_shift, garbage_cidr),
         LAMBDA t2 :
    Then([t2.m EXCEPT !.network_info = t2.info], LAMBDA m3 :
    IF ~m3.network_info.is_valid
    THEN [m |-> setError(m3, ErrTopology), ret |-> FALSE, attempts |-> 0]
    ELSE
    Then(RetryLoop(m3, 0, tseq), LAMBDA l :
         [m |-> [l.m EXCEPT !.is_initialized = TRUE, !.cleaned_up = FALSE],
          ret |-> TRUE,
          attempts |-> l.attempts])))))))))

initialize(m, adapter_name, o, alldevs, open_ok, table, tseq, ub_shift, garbage, garbage_cidr) ==
    Then(initializeCleanup(m), LAMBDA m0 :
    IF ~validateAdapter(o, adapter_name)
    THEN [m |-> setError(m0, ErrInvalidAdapter), ret |-> FALSE, attempts |-> 0]
    ELSE
    Then(mapAdapterNameToPcapTable[adapter_name], LAMBDA mapped :
    Then(IF mapped = EmptyStr THEN adapter_name ELSE mapped, LAMBDA pcap_device_name :
    Then(pcap_open_live(m0, pcap_device_name, alldevs, open_ok), LAMBDA m1 :
    Then(discoverNetworkTopology(m1, adapter_name, o, table, ub_shift, garbage), LAMBDA t1 :
    Then([t1.m EXCEPT !.network_info = t1.info], LAMBDA m2 :
    Then(IF t1.info.is_valid THEN t1
         ELSE discoverNetworkTopologyAlternative(m2, o, table, ub_shift, garbage_cidr),
         LAMBDA t2 :
    Then([t2.m EXCEPT !.network_info = t2.info], LAMBDA m3 :
    IF ~m3.network_info.is_valid
    THEN [m |-> cleanup(setError(m3, ErrTopology)), ret |-> FALSE, attempts |-> 0]
    ELSE
    Then(RetryLoop(m3, 0, tseq), LAMBDA l :
         [m |-> [l.m EXCEPT !.is_initialized = TRUE, !.cleaned_up = FALSE],
          ret |-> TRUE,
          attempts |-> l.attempts])))))))))

\* ---------------------------------------------------- poisoning controller
HasActiveNone(targets, ip) == FALSE

\* The scan for a record of this IP that is active.
HasActive(targets, ip) ==
    \E i \in 1..Len(targets) : targets[i].ip = ip /\ targets[i].is_active

startAppendInactive(m, target_ip, target_mac) ==
    [m EXCEPT !.poisoning_targets =
                  Append(@, [ip |-> target_ip, mac |-> target_mac, is_active |-> FALSE])]

startAppend(m, target_ip, target_mac) ==
    [m EXCEPT !.poisoning_targets =
                  Append(@, [ip |-> target_ip, mac |-> target_mac, is_active |-> TRUE]),
              !.poisoning_active = TRUE]

startSendsBoth(m, target_ip, target_mac, ok1, ok2) ==
    Then(poisonArpCache(m, target_ip, target_mac,
                        m.network_info.gateway_ip, m.network_info.interface_mac, ok1), LAMBDA p1 :
    Then(poisonArpCache(p1.m, m.network_info.gateway_ip, m.network_info.gateway_mac,
                        target_ip, m.network_info.interface_mac, ok2), LAMBDA p2 :
         [m |-> p2.m, ret |-> p1.ret /\ p2.ret]))

startSendsGatewayFirst(m, target_ip, target_mac, ok1, ok2) ==
    Then(poisonArpCache(m, m.network_info.gateway_ip, m.network_info.gateway_mac,
                        target_ip, m.network_info.interface_mac, ok1), LAMBDA p1 :
    IF p1.ret
    THEN poisonArpCache(p1.m, target_ip, target_mac,
                        m.network_info.gateway_ip, m.network_info.interface_mac, ok2)
    ELSE [m |-> p1.m, ret |-> FALSE])

\* return poisonArpCache(victim) && poisonArpCache(gateway): the second send
\* is attempted only when the first succeeded.
startSends(m, target_ip, target_mac, ok1, ok2) ==
    Then(poisonArpCache(m, target_ip, target_mac,
                        m.network_info.gateway_ip, m.network_info.interface_mac, ok1), LAMBDA p1 :
    IF p1.ret
    THEN poisonArpCache(p1.m, m.network_info.gateway_ip, m.network_info.gateway_mac,
                        target_ip, m.network_info.interface_mac, ok2)
    ELSE [m |-> p1.m, ret |-> FALSE])

startArpPoisoningUnguarded(m, target_ip, target_mac, table, ok0, table2, ok1, ok2) ==
    Then(startSends(startAppend(m, target_ip, target_mac), target_ip, target_mac, ok1, ok2),
         LAMBDA p : [m |-> p.m, ret |-> p.ret, slept |-> FALSE])

startArpPoisoning(m, target_ip, target_mac, table, ok0, table2, ok1, ok2) ==
    IF ~m.is_initialized \/ m.pcap_handle = 0
    THEN [m |-> setError(m, ErrNotInitializedPoisoning), ret |-> FALSE, slept |-> FALSE]
    ELSE
      Then(IF GatewayUnresolved(m.network_info)
           THEN refreshGatewayMac(m, table, ok0, table2)
           ELSE [m |-> m, ret |-> FALSE, slept |-> FALSE], LAMBDA r :
      IF HasActive(r.m.poisoning_targets, target_ip)
      THEN [m |-> r.m, ret |-> TRUE, slept |-> r.slept]
      ELSE
        Then(startSends(startAppend(r.m, target_ip, target_mac),
                        target_ip, target_mac, ok1, ok2), LAMBDA p :
             [m |-> p.m, ret |-> p.ret, slept |-> r.slept]))

AnyActive(targets) == \E i \in 1..Len(targets) : targets[i].is_active

stopClearFlagNever(m) == m

stopClearFlagAlways(m) == [m EXCEPT !.poisoning_active = FALSE]

\* if (!any_active) poisoning_active = false;
stopClearFlag(m) ==
    IF ~AnyActive(m.poisoning_targets) THEN [m EXCEPT !.poisoning_active = FALSE] ELSE m

stopRestoreOurMac(m, target_ip, target_mac, ok1, ok2) ==
    Then(poisonArpCache(m, target_ip, target_mac,
                        m.network_info.gateway_ip, m.network_info.interface_mac, ok1), LAMBDA p1 :
         poisonArpCache(p1.m, m.network_info.gateway_ip, m.network_info.gateway_mac,
                        target_ip, m.network_info.interface_mac, ok2).m)

\* The two restoration sends; their results are discarded, so the second is
\* attempted whatever the first did.
stopRestore(m, target_ip, target_mac, ok1, ok2) ==
    Then(poisonArpCache(m, target_ip, target_mac,
                        m.network_info.gateway_ip, m.network_info.gateway_mac, ok1), LAMBDA p1 :
         poisonArpCache(p1.m, m.network_info.gateway_ip, m.network_info.gateway_mac,
                        target_ip, target_mac, ok2).m)

stopArpPoisoningErases(m, target_ip, ok1, ok2) ==
    IF HasActive(m.poisoning_targets, target_ip)
    THEN
      Then(SelectSeq(m.poisoning_targets, LAMBDA t : ~(t.ip = target_ip /\ t.is_active)),
           LAMBDA kept :
           [m |-> stopClearFlag([m EXCEPT !.poisoning_targets = kept]), ret |-> TRUE])
    ELSE [m |-> stopClearFlag(m), ret |-> FALSE]

stopArpPoisoning(m, target_ip, ok1, ok2) ==
    IF HasActive(m.poisoning_targets, target_ip)
    THEN
      Then(CHOOSE i \in 1..Len(m.poisoning_targets) :
                  /\ m.poisoning_targets[i].ip = target_ip
                  /\ m.poisoning_targets[i].is_active
                  /\ \A j \in 1..(i - 1) : ~(m.poisoning_targets[j].ip = target_ip
                                             /\ m.poisoning_targets[j].is_active),
           LAMBDA i :
      Then([m EXCEPT !.poisoning_targets[i].is_active = FALSE], LAMBDA m1 :
           [m |-> stopClearFlag(stopRestore(m1, target_ip, m.poisoning_targets[i].mac,
                                            ok1, ok2)),
            ret |-> TRUE]))
    ELSE [m |-> stopClearFlag(m), ret |-> FALSE]

\* ----------------------------------------------------------------- actions
Alive == lifecycle = "alive"

Call(op, ip, ret) == [op |-> op, ip |-> ip, ret |-> ret]

Init ==
    /\ pcap_handle = 0
    /\ is_initialized = FALSE
    /\ \E valid \in BOOLEAN, cidr \in GarbageCidrs :
          network_info = [DefaultNetworkInfo EXCEPT !.is_valid = valid, !.subnet_cidr = cidr]
    /\ poisoning_targets = <<>>
    /\ poisoning_active = FALSE
    /\ perf_stats = ZeroStats
    /\ last_error = ""
    /\ lifecycle = "alive"
    /\ sent = <<>>
    /\ open_handles = {}
    /\ double_close = FALSE
    /\ cleaned_up = FALSE
    /\ events = <<>>
    /\ lastOp = Call("new", EmptyStr, TRUE)

\* The inputs of initialize that the environment decides: whether the
\* capture device opens and what the ARP table holds at each read.  Neither
\* is consulted when the adapter name is rejected.
OpenChoices(adapter_name, o) == IF validateAdapter(o, adapter_name) THEN BOOLEAN ELSE {FALSE}

ReadChoices(adapter_name, o) ==
    IF validateAdapter(o, adapter_name) THEN InitTableRuns(o)
    ELSE {[i \in 1..4 |-> TableAbsent]}

InitializeStep(adapter_name, o) ==
    \E open_ok \in OpenChoices(adapter_name, o), run \in ReadChoices(adapter_name, o),
       ub_shift \in ShiftChoices(o), garbage_cidr \in CidrChoices(o) :
       \E r \in {initialize(Cur, adapter_name, o, PcapDevices, open_ok, run[1],
                           [i \in 1..3 |-> run[i + 1]], ub_shift, AllZeros, garbage_cidr)} :
           /\ Commit(r.m)
           /\ lastOp' = Call("initialize", adapter_name, r.ret)

Initialize(adapter_name) ==
    /\ Alive
    /\ \E o \in OsScenarios : InitializeStep(adapter_name, o)

Cleanup ==
    /\ Alive
    /\ \E m \in {cleanup(Cur)} : Commit(m)
    /\ lastOp' = Call("cleanup", EmptyStr, TRUE)

\* ~ArpManager()
Destroy ==
    /\ Alive
    /\ \E m \in {[cleanup(Cur) EXCEPT !.lifecycle = "destroyed"]} : Commit(m)
    /\ lastOp' = Call("destroy", EmptyStr, TRUE)

\* Whether pcap_sendpacket accepts a frame is the environment's choice; it
\* is consulted only once a send gets as far as the handle.
OkChoices == IF is_initialized /\ pcap_handle # 0 THEN BOOLEAN ELSE {FALSE}

UbChoices == IF is_initialized /\ pcap_handle = 0 THEN UbOutcomes ELSE {"garbage"}

ResetPerformanceStats ==
    /\ Alive
    /\ \E m \in {resetPerformanceStats(Cur)} : Commit(m)
    /\ lastOp' = Call("reset_stats", EmptyStr, TRUE)

SendArpRequest(target_ip) ==
    /\ Alive
    /\ perf_stats.packets_sent < MaxPackets
    /\ \E ok \in OkChoices, ub \in UbChoices :
          \E r \in {sendArpRequest(Cur, target_ip, ok, ub)} :
              /\ Commit(r.m)
              /\ lastOp' = Call("send_arp_request", target_ip, r.ret)

SendArpReply(target_ip, target_mac) ==
    /\ Alive
    /\ perf_stats.packets_sent < MaxPackets
    /\ \E ok \in OkChoices :
          \E r \in {sendArpReply(Cur, inet_ntopTable[LocalAddr], target_ip,
                                macToStringTable[OurMac], target_mac, ok)} :
              /\ Commit(r.m)
              /\ lastOp' = Call("send_reply", target_ip, r.ret)

PoisonArpCache(victim_ip, victim_mac) ==
    /\ Alive
    /\ perf_stats.packets_sent < MaxPackets
    /\ \E ok \in OkChoices :
          \E r \in {poisonArpCache(Cur, victim_ip, victim_mac,
                                  inet_ntopTable[GatewayAddr], macToStringTable[OurMac], ok)} :
              /\ Commit(r.m)
              /\ lastOp' = Call("poison", victim_ip, r.ret)

\* The environment of one gateway-MAC refresh: the table at the first read,
\* whether the ARP request goes out, and the table after the wait.  Only
\* the first matters when the table already resolves the gateway, and none
\* when the gateway MAC is already known.
RefreshRuns ==
    IF ~(is_initialized /\ pcap_handle # 0 /\ GatewayUnresolved(network_info))
    THEN {<<TableResolved, FALSE, TableResolved>>}
    ELSE {<<TableResolved, FALSE, TableResolved>>, <<TableAbsent, FALSE, TableAbsent>>}
         \cup {<<TableAbsent, TRUE, t2>> : t2 \in ArpTables}

\* The sends of a start are reached only when a record is appended.
StartChoices(target_ip) ==
    IF HasActive(poisoning_targets, target_ip) THEN {FALSE} ELSE OkChoices

StartArpPoisoning(target_ip, target_mac) ==
    /\ Alive
    /\ perf_stats.packets_sent < MaxPackets
    /\ Len(poisoning_targets) < MaxTargets
    /\ \E e \in RefreshRuns, ok1 \in StartChoices(target_ip) :
       \E ok2 \in (IF ok1 THEN BOOLEAN ELSE {FALSE}) :
          \E r \in {startArpPoisoning(Cur, target_ip, target_mac, e[1], e[2], e[3], ok1, ok2)} :
              /\ Commit(r.m)
              /\ lastOp' = Call("start_poisoning", target_ip, r.ret)

StopChoices(target_ip) ==
    IF HasActive(poisoning_targets, target_ip) THEN OkChoices ELSE {FALSE}

\* A stop that finds no active record reaches no send, so only a stop that
\* restores is held to the packet bound.
StopArpPoisoning(target_ip) ==
    /\ Alive
    /\ HasActive(poisoning_targets, target_ip) => perf_stats.packets_sent < MaxPackets
    /\ \E ok1 \in StopChoices(target_ip), ok2 \in StopChoices(target_ip) :
          \E r \in {stopArpPoisoning(Cur, target_ip, ok1, ok2)} :
              /\ Commit(r.m)
              /\ lastOp' = Call("stop_poisoning", target_ip, r.ret)

Next ==
    \/ \E n \in InitializeArgs : Initialize(n)
    \/ Cleanup
    \/ Destroy
    \/ ResetPerformanceStats
    \/ \E ip \in {VictimIp, BadIp} : SendArpRequest(ip)
    \/ \E mac \in TargetMacs : SendArpReply(VictimIp, mac)
    \/ \E mac \in TargetMacs : PoisonArpCache(VictimIp, mac)
    \/ \E a \in StartArgs : StartArpPoisoning(a[1], a[2])
    \/ \E ip \in {VictimIp, SecondIp} : StopArpPoisoning(ip)

Spec == Init /\ [][Next]_vars

\* ------------------------------------------- the prefix-length computation
\* initialize on systems whose adapters have every prefix length 0..32.
InitializeMask == Alive /\ \E o \in MaskScenarios : InitializeStep(NameA, o)

NextCidr == InitializeMask \/ Cleanup

SpecCidr == Init /\ [][NextCidr]_vars

\* ------------------------------------------------------ fields of a frame
\* A transmitted frame is the 42 bytes of ArpFrame; the fields by position.
EthDst(f) == SubSeq(f, 1, 6)

EthSrc(f) == SubSeq(f, 7, 12)

EtherType(f) == SubSeq(f, 13, 14)

ArpOperation(f) == SubSeq(f, 21, 22)

ArpSender(f) == <<SubSeq(f, 23, 28), SubSeq(f, 29, 32)>>

ArpTarget(f) == <<SubSeq(f, 33, 38), SubSeq(f, 39, 42)>>

\* f is the ARP reply dst <- src saying that sender_ip is at sender_mac.
IsReply(f, dst, src, sender_mac, sender_ip, target_mac, target_ip) ==
    /\ Len(f) = 42
    /\ EthDst(f) = dst /\ EthSrc(f) = src /\ EtherType(f) = <<8, 6>>
    /\ ArpOperation(f) = <<0, 2>>
    /\ ArpSender(f) = <<sender_mac, sender_ip>>
    /\ ArpTarget(f) = <<target_mac, target_ip>>

\* f is the broadcast ARP request of src asking for target_ip.
IsRequest(f, src, sender_ip, target_ip) ==
    /\ Len(f) = 42
    /\ EthDst(f) = <<255, 255, 255, 255, 255, 255>> /\ EthSrc(f) = src
    /\ EtherType(f) = <<8, 6>> /\ ArpOperation(f) = <<0, 1>>
    /\ ArpSender(f) = <<src, sender_ip>>
    /\ ArpTarget(f) = <<<<0, 0, 0, 0, 0, 0>>, target_ip>>

MacBytes(mac_str) == stringToMacTable[mac_str].bytes

IpBytes(ip_str) == stringToIpTable[ip_str].bytes

Usable == lifecycle = "alive" /\ is_initialized /\ pcap_handle # 0

ActiveRecords(targets, ip) ==
    {i \in 1..Len(targets) : targets[i].ip = ip /\ targets[i].is_active}

Records(targets, ip) == {i \in 1..Len(targets) : targets[i].ip = ip}

\* ================================================================= claims

\* A start_poisoning call for an IP that the previous start left active.
C1_SecondStart ==
    /\ Usable
    /\ lastOp'.op = "start_poisoning"
    /\ ActiveRecords(poisoning_targets, lastOp'.ip) # {}

\* C1 as stated: on an initialized core with an open handle, the second of
\* two successive start_poisoning calls for the same IP returns true,
\* transmits no frame at all whatever the state of the gateway MAC, and
\* leaves exactly one record for that IP.
C1_SecondStartSilent ==
    [][C1_SecondStart =>
          /\ lastOp'.ret
          /\ sent' = <<>>
          /\ Cardinality(Records(poisoning_targets', lastOp'.ip)) = 1]_vars

\* C1 amended: the second start for an IP whose record is active returns
\* true, leaves the target list as it is with exactly one active record for
\* the IP, and transmits no spoofed reply; it transmits nothing when the
\* gateway MAC is resolved, and at most the one broadcast ARP request for
\* the gateway when it is not.
C1_SecondStartAppendsNothing ==
    [][C1_SecondStart =>
          /\ lastOp'.ret
          /\ poisoning_targets' = poisoning_targets
          /\ Cardinality(ActiveRecords(poisoning_targets', lastOp'.ip)) = 1
          /\ \/ sent' = <<>>
             \/ /\ GatewayUnresolved(network_info)
                /\ Len(sent') = 1
                /\ IsRequest(sent'[1], MacBytes(network_info.interface_mac),
                             IpBytes(network_info.local_ip),
                             IpBytes(network_info.gateway_ip))]_vars

\* A start that found its target active and still put a gateway request on
\* the wire.
C1_Witness ==
    /\ lastOp.op = "start_poisoning" /\ lastOp.ret
    /\ Len(sent) = 1
    /\ ArpOperation(sent[1]) = <<0, 1>>
    /\ Cardinality(ActiveRecords(poisoning_targets, lastOp.ip)) = 1

\* C2: stop_poisoning for an IP that has no active record returns false and
\* changes nothing: target list, poisoning_active, counters, last_error and
\* every other member stay as they were, and no frame is transmitted.
C2_StopUnknownChangesNothing ==
    [][(lastOp'.op = "stop_poisoning" /\ ActiveRecords(poisoning_targets, lastOp'.ip) = {}) =>
          /\ ~lastOp'.ret
          /\ sent' = <<>>
          /\ UNCHANGED <<poisoning_targets, poisoning_active, perf_stats, last_error,
                         pcap_handle, is_initialized, network_info, open_handles>>]_vars

\* A stop that found nothing to stop for its IP (the record is there and
\* already stopped) while another target is active.
C2_Witness ==
    /\ lastOp.op = "stop_poisoning" /\ ~lastOp.ret
    /\ Records(poisoning_targets, lastOp.ip) # {}
    /\ poisoning_active

SendOps == {"send_arp_request", "send_reply", "poison", "start_poisoning"}

\* C3: after cleanup and until the next successful initialize, the handle
\* that was open is closed and no longer held, and every send operation
\* returns false with the not-initialized diagnostic and transmits nothing.
C3_AfterCleanupSendsFail ==
    cleaned_up =>
        /\ ~is_initialized
        /\ pcap_handle = 0
        /\ open_handles = {}
        /\ lastOp.op \in SendOps =>
              /\ ~lastOp.ret
              /\ sent = <<>>
              /\ last_error = IF lastOp.op \in {"send_arp_request", "send_reply"}
                              THEN ErrNotInitialized ELSE ErrNotInitializedPoisoning

\* A start attempted after the cleanup of a core that had poisoned a target.
C3_Witness ==
    /\ cleaned_up
    /\ lastOp.op = "start_poisoning"
    /\ poisoning_targets # <<>>

\* C4 as stated: a step that closes the capture handle while some target is
\* active first stops every active target: their restoration frames go
\* out (two per target) and no record is active afterwards.
C4_RestoreBeforeClose ==
    [][(pcap_handle # 0 /\ lastOp'.op \in {"cleanup", "destroy", "initialize"}
          /\ AnyActive(poisoning_targets)) =>
          /\ ~AnyActive(poisoning_targets')
          /\ Len(sent') >= 2]_vars

\* C5: every opened handle is closed exactly once: none is closed twice,
\* none is open without being the one the object holds (so none was
\* overwritten and at most one is open), the held handle is open, and none
\* is open after destruction.
C5_HandleClosedOnce ==
    /\ ~double_close
    /\ open_handles \subseteq {pcap_handle}
    /\ pcap_handle # 0 => pcap_handle \in open_handles
    /\ Cardinality(open_handles) <= 1
    /\ lifecycle = "destroyed" => open_handles = {}

\* Destroyed after a life in which a handle was opened (targets exist).
C5_Witness ==
    /\ lifecycle = "destroyed"
    /\ poisoning_targets # <<>>
    /\ open_handles = {}

\* A start_poisoning that appends a record while the gateway MAC is resolved.
C6_AppendingStart ==
    /\ Usable
    /\ lastOp'.op = "start_poisoning"
    /\ Len(poisoning_targets') = Len(poisoning_targets) + 1
    /\ ~GatewayUnresolved(network_info)

\* The victim-directed spoof of the record appended last: the victim is told
\* that gateway_ip is at our MAC.
C6_VictimSpoof(f, targets, info) ==
    LET rec == targets[Len(targets)]
    IN  IsReply(f, MacBytes(rec.mac), MacBytes(info.interface_mac),
                MacBytes(info.interface_mac), IpBytes(info.gateway_ip),
                MacBytes(rec.mac), IpBytes(rec.ip))

\* The gateway-directed spoof: the gateway is told that the target IP is at
\* our MAC.
C6_GatewaySpoof(f, targets, info) ==
    LET rec == targets[Len(targets)]
    IN  IsReply(f, MacBytes(info.gateway_mac), MacBytes(info.interface_mac),
                MacBytes(info.interface_mac), IpBytes(rec.ip),
                MacBytes(info.gateway_mac), IpBytes(info.gateway_ip))

\* C6 as stated: a start that appends a new target with a resolved gateway
\* MAC transmits exactly two frames, the victim-directed reply and then the
\* gateway-directed reply.
C6_StartSendsPair ==
    [][C6_AppendingStart =>
          /\ Len(sent') = 2
          /\ C6_VictimSpoof(sent'[1], poisoning_targets', network_info')
          /\ C6_GatewaySpoof(sent'[2], poisoning_targets', network_info')]_vars

\* C6 amended: such a start transmits a prefix of the pair (victim-directed
\* reply, gateway-directed reply), never the gateway-directed reply first or
\* alone, and it transmits the whole pair exactly when it returns true.
C6_StartSendsPrefixOfPair ==
    [][C6_AppendingStart =>
          /\ Len(sent') <= 2
          /\ Len(sent') >= 1 =>
                C6_VictimSpoof(sent'[1], poisoning_targets', network_info')
          /\ Len(sent') = 2 =>
                C6_GatewaySpoof(sent'[2], poisoning_targets', network_info')
          /\ lastOp'.ret <=> Len(sent') = 2]_vars

\* A start that returned true after the two spoofs of scenario S3.
C6_Witness ==
    /\ lastOp.op = "start_poisoning" /\ lastOp.ret
    /\ Len(sent) = 2
    /\ IsReply(sent[1], VictimHw, OurMac, OurMac, GatewayAddr, VictimHw, IpBytes(VictimIp))
    /\ IsReply(sent[2], GatewayHw, OurMac, OurMac, IpBytes(VictimIp), GatewayHw, GatewayAddr)

\* A stop_poisoning for an IP with an active record, on an initialized core
\* with an open handle.
C7_StopActive ==
    /\ Usable
    /\ lastOp'.op = "stop_poisoning"
    /\ ActiveRecords(poisoning_targets, lastOp'.ip) # {}

C7_Stopped(targets, ip) ==
    CHOOSE i \in ActiveRecords(targets, ip) : \A j \in ActiveRecords(targets, ip) : i <= j

\* The restoration frame for the victim: gateway_ip is at the gateway MAC.
C7_VictimRestore(f, rec, info) ==
    IsReply(f, MacBytes(rec.mac), MacBytes(info.gateway_mac),
            MacBytes(info.gateway_mac), IpBytes(info.gateway_ip),
            MacBytes(rec.mac), IpBytes(rec.ip))

\* The restoration frame for the gateway: the target IP is at the MAC stored
\* in the record.
C7_GatewayRestore(f, rec, info) ==
    IsReply(f, MacBytes(info.gateway_mac), MacBytes(rec.mac),
            MacBytes(rec.mac), IpBytes(rec.ip),
            MacBytes(info.gateway_mac), IpBytes(info.gateway_ip))

C7_MarkedInactive ==
    poisoning_targets' =
        [poisoning_targets EXCEPT
            ![C7_Stopped(poisoning_targets, lastOp'.ip)].is_active = FALSE]

C8_DegradedSendDiagnostic ==
    (/\ lastOp.op = "send_arp_request" /\ lastOp.ip = VictimIp
     /\ is_initialized /\ pcap_handle = 0 /\ network_info.is_valid) =>
        /\ lifecycle = "alive"
        /\ ~lastOp.ret
        /\ sent = <<>>
        /\ last_error = ErrNoHandle

\* C9 as stated: the target list never holds two records with the same IP.
C9_OneRecordPerIp ==
    \A i, j \in 1..Len(poisoning_targets) :
        i # j => poisoning_targets[i].ip # poisoning_targets[j].ip

\* The dotted mask of k leading one-bits.
DottedMask(k) == inet_ntop(htonl(IF k = 0 THEN AllZeros ELSE ShiftLeft(AllOnes, 32 - k)))

DottedMaskTable == [k \in 0..32 |-> DottedMask(k)]

\* C10 as stated: a topology of the primary resolver whose mask is k leading
\* one-bits has prefix length k.
C10_PrefixLengthOfMask ==
    \A k \in 0..32 :
        (/\ network_info.is_valid
         /\ network_info.interface_name # EmptyStr
         /\ network_info.subnet_mask = DottedMaskTable[k]) =>
            network_info.subnet_cidr = k

\* C11: start_poisoning on a core that is not initialized or holds no capture
\* handle returns false with the not-initialized diagnostic, transmits no
\* frame at all, and leaves the target list and poisoning_active unchanged.
C11_StartNotReadyFails ==
    [][(lastOp'.op = "start_poisoning" /\ ~(is_initialized /\ pcap_handle # 0)) =>
          /\ ~lastOp'.ret
          /\ last_error' = ErrNotInitializedPoisoning
          /\ sent' = <<>>
          /\ UNCHANGED <<poisoning_targets, poisoning_active>>]_vars

\* A start refused on a degraded core: initialized, but without a handle.
C11_Witness ==
    /\ lastOp.op = "start_poisoning" /\ ~lastOp.ret
    /\ is_initialized /\ pcap_handle = 0
    /\ GatewayUnresolved(network_info)
    /\ last_error = ErrNotInitializedPoisoning

\* The ARP replies among the frames of a call, in the order transmitted.
Replies(frames) ==
    LET IsOp2(f) == ArpOperation(f) = <<0, 2>>
    IN  SelectSeq(frames, IsOp2)

\* A start_poisoning that appends a record and ends with the gateway MAC
\* still unresolved.
C12_UnresolvedStart ==
    /\ Usable
    /\ lastOp'.op = "start_poisoning"
    /\ Len(poisoning_targets') = Len(poisoning_targets) + 1
    /\ GatewayUnresolved(network_info')

\* The gateway-directed spoof addressed to the all-zero MAC.
C12_ZeroGatewaySpoof(f, targets, info) ==
    LET rec == targets[Len(targets)]
    IN  IsReply(f, ZeroMac, MacBytes(info.interface_mac),
                MacBytes(info.interface_mac), IpBytes(rec.ip),
                ZeroMac, IpBytes(info.gateway_ip))

C12_AppendedActive ==
    /\ poisoning_targets'[Len(poisoning_targets')].is_active
    /\ poisoning_targets'[Len(poisoning_targets')].ip = lastOp'.ip
    /\ poisoning_active'

Attempts == perf_stats'.packets_sent - perf_stats.packets_sent

FailedAttempts == perf_stats'.send_errors - perf_stats.send_errors

\* C13 as stated: a start that appends a new target (well-formed MAC,
\* resolved gateway, so both frames can be built) attempts both sends
\* whatever the outcome of the first, and returns true exactly when both
\* succeeded.
C13_StartAttemptsBoth ==
    [][(C6_AppendingStart /\ stringToMacTable[poisoning_targets'[Len(poisoning_targets')].mac].ok) =>
          /\ Attempts = 2
          /\ lastOp'.ret <=> Len(sent') = 2]_vars

\* C13 amended: such a start attempts the victim-directed send, and the
\* gateway-directed send only when the first succeeded; after a failed
\* attempt nothing more is attempted, and the call returns true exactly when
\* both sends succeeded.
C13_StartStopsAtFirstFailure ==
    [][C6_AppendingStart =>
          /\ Attempts <= 2
          /\ FailedAttempts <= 1
          /\ Len(sent') = Attempts - FailedAttempts
          /\ Len(sent') = 0 => Attempts <= 1
          /\ Attempts = 2 => C6_VictimSpoof(sent'[1], poisoning_targets', network_info')
          /\ lastOp'.ret <=> (Attempts = 2 /\ FailedAttempts = 0)]_vars

\* A start whose first send failed: one attempt, one error, nothing sent.
C13_Witness ==
    /\ lastOp.op = "start_poisoning" /\ ~lastOp.ret
    /\ last_error = ErrSendPoisonFailed
    /\ ~GatewayUnresolved(network_info)
    /\ sent = <<>>
    /\ perf_stats = [packets_sent |-> 1, send_errors |-> 1]

\* C14: stop_poisoning is idempotent per target.  A stop for an IP with an
\* active record returns true and marks that record inactive whatever the
\* restoration sends did; a stop for the same IP directly after it returns
\* false, transmits no frame and changes nothing; and no stop shortens the
\* target list or changes the ip or mac of a record.
C14_FirstStop ==
    lastOp'.op = "stop_poisoning" /\ ActiveRecords(poisoning_targets, lastOp'.ip) # {}

C14_SecondStop ==
    /\ lastOp.op = "stop_poisoning" /\ lastOp.ret
    /\ lastOp'.op = "stop_poisoning" /\ lastOp'.ip = lastOp.ip

C14_SameIdentities ==
    /\ Len(poisoning_targets') = Len(poisoning_targets)
    /\ \A i \in 1..Len(poisoning_targets) :
          /\ poisoning_targets'[i].ip = poisoning_targets[i].ip
          /\ poisoning_targets'[i].mac = poisoning_targets[i].mac

C14_StopIdempotent ==
    [][/\ C14_FirstStop =>
             /\ lastOp'.ret
             /\ C7_MarkedInactive
             /\ ActiveRecords(poisoning_targets', lastOp'.ip) = {}
       /\ C14_SecondStop =>
             /\ ~lastOp'.ret
             /\ sent' = <<>>
             /\ UNCHANGED <<poisoning_targets, poisoning_active, perf_stats, last_error,
                            pcap_handle, is_initialized, network_info, open_handles>>
       /\ lastOp'.op = "stop_poisoning" => C14_SameIdentities]_vars

\* A stop that returned true although a restoration send was refused: the
\* record is still listed, inactive.
C14_Witness ==
    /\ lastOp.op = "stop_poisoning" /\ lastOp.ret
    /\ Len(sent) < 2 /\ perf_stats.send_errors > 0
    /\ Records(poisoning_targets, lastOp.ip) # {}
    /\ ActiveRecords(poisoning_targets, lastOp.ip) = {}

\* get_topology: GetNetworkTopology returns getNetworkInfo(), the member
\* network_info as it stands.
getNetworkInfo == network_info

\* The cached topology is one that an initialize returning true stored: only
\* such an initialize leaves a valid topology with a local address.
C15_CachedBySuccess == getNetworkInfo.is_valid /\ getNetworkInfo.local_ip # EmptyStr

\* C15: once a successful initialize has cached a topology, cleanup and any
\* later initialize that returns false leave the value returned by
\* get_topology as it was.
C15_TopologyKept ==
    [][(/\ C15_CachedBySuccess
        /\ \/ lastOp'.op = "cleanup"
           \/ lastOp'.op = "initialize" /\ ~lastOp'.ret) =>
          getNetworkInfo' = getNetworkInfo]_vars

\* An initialize that got past the adapter check and stored an invalid
\* topology: neither resolver produced a valid one.
C16_NoTopology ==
    /\ lastOp'.op = "initialize"
    /\ last_error' = ErrTopology
    /\ ~network_info'.is_valid

\* C16: when neither resolver yields a valid topology, initialize returns
\* false and ends not initialized, holding no capture handle and with none
\* left open (one opened earlier in the call has been closed); and an
\* initialize that returns true has stored a topology with is_valid true.
C16_InitializeNeedsTopology ==
    [][/\ C16_NoTopology =>
             /\ ~lastOp'.ret
             /\ ~is_initialized'
             /\ pcap_handle' = 0
             /\ open_handles' = {}
       /\ (lastOp'.op = "initialize" /\ lastOp'.ret) => network_info'.is_valid]_vars

\* An initialize of a known adapter that failed for want of a topology.
C16_Witness ==
    /\ lastOp.op = "initialize" /\ ~lastOp.ret
    /\ lastOp.ip \in {NameA, NameB}
    /\ last_error = ErrTopology
    /\ ~network_info.is_valid
    /\ ~is_initialized /\ pcap_handle = 0 /\ open_handles = {}

\* C17: the frame that send_arp_request transmits is 42 bytes: broadcast
\* destination, the interface MAC as source, ethertype 08 06, htype 00 01,
\* ptype 08 00, hlen 6, plen 4, op 00 01, sender = (interface MAC, local IP),
\* target MAC zero and target IP the requested address, the 16-bit fields
\* most significant byte first; and it is the only frame of the call.
C17_RequestFrame ==
    [][(lastOp'.op = "send_arp_request" /\ lastOp'.ret) =>
          /\ Len(sent') = 1
          /\ Len(sent'[1]) = 42
          /\ SubSeq(sent'[1], 1, 6) = <<255, 255, 255, 255, 255, 255>>
          /\ SubSeq(sent'[1], 7, 12) = MacBytes(network_info.interface_mac)
          /\ SubSeq(sent'[1], 13, 22) = <<8, 6, 0, 1, 8, 0, 6, 4, 0, 1>>
          /\ SubSeq(sent'[1], 23, 28) = MacBytes(network_info.interface_mac)
          /\ SubSeq(sent'[1], 29, 32) = IpBytes(network_info.local_ip)
          /\ SubSeq(sent'[1], 33, 38) = <<0, 0, 0, 0, 0, 0>>
          /\ SubSeq(sent'[1], 39, 42) = IpBytes(lastOp'.ip)]_vars

\* send_arp_request("192.168.1.50") on the host aa:bb:cc:dd:ee:ff at
\* 192.168.1.10 put its request on the wire.
C17_Witness ==
    /\ lastOp.op = "send_arp_request" /\ lastOp.ret /\ lastOp.ip = VictimIp
    /\ sent = << <<255, 255, 255, 255, 255, 255, 170, 187, 204, 221, 238, 255, 8, 6,
                   0, 1, 8, 0, 6, 4, 0, 1,
                   170, 187, 204, 221, 238, 255, 192, 168, 1, 10,
                   0, 0, 0, 0, 0, 0, 192, 168, 1, 50>> >>

\* --------------------------------------------------- stringToMac on its own
\* Two-character byte texts: hex digits in either case, a digit followed by
\* a non-digit, a sign or a blank before a digit, and texts with no digit
\* in front.
ByteTexts ==
    {<<"a", "a">>, <<"0", "F">>, <<"1", "g">>, <<"-", "1">>, <<" ", "1">>,
     <<"+", "1">>, <<"g", "1">>, <<"z", "z">>, <<":", ":">>, <<"0", "x">>}

Separators == {":", "-"}

MacInputs ==
    {b1 \o <<sep>> \o <<"b", "b">> \o <<sep>> \o <<"c", "c">> \o <<sep>> \o
     <<"d", "d">> \o <<sep>> \o <<"e", "e">> \o <<sep>> \o b6 :
        b1 \in ByteTexts, b6 \in ByteTexts, sep \in Separators}
    \cup {EmptyStr, BadMac, SubStr(VictimMac, 0, 16), VictimMac \o <<"0">>}

\* One call of stringToMac: the string and the returned bool are recorded,
\* and the six bytes written to the out-parameter when it returned true.
StringToMac(mac_str) ==
    /\ Alive
    /\ \E r \in {stringToMac(mac_str)} :
          /\ lastOp' = Call("string_to_mac", mac_str, r.ok)
          /\ sent' = IF r.ok THEN <<r.bytes>> ELSE <<>>
    /\ UNCHANGED <<pcap_handle, is_initialized, network_info, poisoning_targets,
                   poisoning_active, perf_stats, last_error, lifecycle, open_handles,
                   double_close, cleaned_up, events>>

NextMac == \E mac_str \in MacInputs : StringToMac(mac_str)

SpecMac == Init /\ [][NextMac]_vars

C18_SixHexPairs(mac_str) ==
    /\ Len(mac_str) = 17
    /\ \A i \in 0..5 : IsHexDigit(mac_str[3 * i + 1]) /\ IsHexDigit(mac_str[3 * i + 2])

\* C18: string_to_mac returns false for every input that is not 17
\* characters long and for every 17-character input with a byte position
\* that is not two hexadecimal digits; it returns true only for six
\* two-hex-digit bytes.
C18_StringToMacStrict ==
    lastOp.op = "string_to_mac" => (lastOp.ret => C18_SixHexPairs(lastOp.ip))

\* ------------------------------------------ mapAdapterNameToPcap on its own
\* The identities asked for: the two adapters that have a capture device,
\* every fragment of their names (the empty one included), a name no device
\* has, and a longer string that contains a device's GUID.
Fragments(name) == {SubStr(name, k, n) : k \in 0..Len(name), n \in 0..Len(name)}

MapInputs ==
    Fragments(NameA) \cup Fragments(NameB) \cup {NameQ, NameLo, NpfPrefix \o NameB}

\* What pcap_findalldevs can return: the two devices in either order, with a
\* device that is not an NPF one, or nothing.
DeviceLists ==
    {PcapDevices, <<PcapDevices[2], PcapDevices[1]>>,
     <<NameLo>> \o PcapDevices, <<>>}

\* One call of mapAdapterNameToPcap: the identity is recorded with whether
\* a device was found, and the returned name followed by the device list.
MapAdapter(windows_adapter_name, alldevs) ==
    /\ Alive
    /\ \E pcap_name \in {mapAdapterNameToPcap(windows_adapter_name, alldevs)} :
          /\ lastOp' = Call("map_adapter", windows_adapter_name, pcap_name # EmptyStr)
          /\ sent' = <<pcap_name>> \o alldevs
    /\ UNCHANGED <<pcap_handle, is_initialized, network_info, poisoning_targets,
                   poisoning_active, perf_stats, last_error, lifecycle, open_handles,
                   double_close, cleaned_up, events>>

NextMap == \E n \in MapInputs, alldevs \in DeviceLists : MapAdapter(n, alldevs)

SpecMap == Init /\ [][NextMap]_vars

\* The GUID token of a capture device: what follows its last '_'.
C19_Token(device_name) ==
    LET last == CHOOSE k \in 1..Len(device_name) :
                   device_name[k] = "_" /\ \A j \in (k + 1)..Len(device_name) : device_name[j] # "_"
    IN  SubSeq(device_name, last + 1, Len(device_name))

C19_IsNpf(device_name) ==
    Len(device_name) >= Len(NpfPrefix) /\ SubSeq(device_name, 1, Len(NpfPrefix)) = NpfPrefix

C19_Infix(a, b) == \E i \in 1..(Len(b) + 1) : \E j \in (i - 1)..Len(b) : SubSeq(b, i, j) = a

C19_Devices == Tail(sent)

C19_First(S) == CHOOSE i \in S : \A j \in S : i <= j

C19_Expect(Matching) ==
    IF Matching = {} THEN sent[1] = EmptyStr ELSE sent[1] = C19_Devices[C19_First(Matching)]

\* C19 as stated: map_adapter returns the capture device whose GUID token is
\* the identity, and the empty string for every other identity - unknown,
\* empty, or a fragment of a device's GUID.
C19_MapsExactToken ==
    lastOp.op = "map_adapter" =>
        C19_Expect({i \in 1..Len(C19_Devices) :
                      C19_IsNpf(C19_Devices[i]) /\ C19_Token(C19_Devices[i]) = lastOp.ip})

\* C19 amended: map_adapter returns the first NPF capture device whose GUID
\* token contains the identity or is contained in it, and the empty string
\* exactly when no device is so related to the identity.
C19_MapsByContainment ==
    lastOp.op = "map_adapter" =>
        C19_Expect({i \in 1..Len(C19_Devices) :
                      /\ C19_IsNpf(C19_Devices[i])
                      /\ \/ C19_Infix(C19_Token(C19_Devices[i]), lastOp.ip)
                         \/ C19_Infix(lastOp.ip, C19_Token(C19_Devices[i]))})

\* The fragment "ABC" of an adapter's GUID was mapped to that adapter's
\* capture device, listed second.
C19_Witness ==
    /\ lastOp.op = "map_adapter" /\ lastOp.ip = <<"A", "B", "C">>
    /\ sent = <<NpfPrefix \o NameA, NpfPrefix \o NameB, NpfPrefix \o NameA>>

\* ------------------------------------------------- the three send operations
\* The send operations called with well-formed and malformed strings on a
\* core that initialize has or has not brought up.
NextSend ==
    \/ \E n \in {NameA} : Initialize(n)
    \/ ResetPerformanceStats
    \/ \E ip \in {VictimIp, BadIp} : SendArpRequest(ip)
    \/ \E ip \in {VictimIp, BadIp}, mac \in SendMacs : SendArpReply(ip, mac)
    \/ \E ip \in {VictimIp, BadIp}, mac \in SendMacs : PoisonArpCache(ip, mac)

SpecSend == Init /\ [][NextSend]_vars

\* A MAC string is well-formed when it is six two-hex-digit bytes; an IP
\* string when it is a dotted quad.
C20_Malformed(ip, mac) == ~stringToIpTable[ip].ok \/ ~C18_SixHexPairs(mac)

C20_Rejected == ~lastOp'.ret /\ sent' = <<>> /\ UNCHANGED perf_stats

\* C20: send_arp_request, send_reply and the spoofed send, called with a
\* malformed IP or MAC string, return false, transmit no frame and leave
\* packets_sent and send_errors unchanged.
C20_MalformedSendRejected ==
    [][/\ \A ip \in {VictimIp, BadIp} :
             (SendArpRequest(ip) /\ ~stringToIpTable[ip].ok) => C20_Rejected
       /\ \A ip \in {VictimIp, BadIp}, mac \in SendMacs :
             (C20_Malformed(ip, mac) /\ (SendArpReply(ip, mac) \/ PoisonArpCache(ip, mac)))
                => C20_Rejected]_vars

\* ------------------------------------------------------ initialize on its own
InitializeAny == Alive /\ \E n \in InitializeArgs, o \in InitScenarios : InitializeStep(n, o)

NextInit == InitializeAny \/ Cleanup

SpecInit == Init /\ [][NextInit]_vars

\* The positions in the log of the discoverGatewayMac calls and of the waits.
Discoveries == {i \in 1..Len(events) : events[i].call = "discoverGatewayMac"}

Sleeps == {i \in 1..Len(events) : events[i].call = "Sleep"}

C21_Resolved(i) == events[i].ret # EmptyStr /\ events[i].ret # ZeroMacStr

\* C21 as stated: one initialize makes at most 3 discover_gateway_mac calls,
\* resolvers and retry loop together, and none after the first that returns a
\* non-empty non-zero MAC.
C21_ThreeAttemptsInAll ==
    lastOp.op = "initialize" =>
        /\ Cardinality(Discoveries) <= 3
        /\ \A i \in Discoveries : C21_Resolved(i) => \A j \in Discoveries : j <= i

\* C21 amended: each resolver makes at most one discover_gateway_mac call
\* and the retry loop at most 3 more, 5 in all; every wait of the loop
\* follows a call that did not resolve the MAC, no call follows the third
\* wait, and a call that resolved the MAC is the last event of the
\* initialize unless it is the primary resolver's and the fallback resolver
\* runs next.
C21_ThreeRetries ==
    lastOp.op = "initialize" =>
        /\ Cardinality(Sleeps) <= 3
        /\ Cardinality(Discoveries) <= 2 + Cardinality(Sleeps) + 1
        /\ Cardinality(Discoveries) <= 5
        /\ \A i \in Sleeps : i > 1 /\ (i - 1) \in Discoveries /\ ~C21_Resolved(i - 1)
        /\ Cardinality(Sleeps) = 3 => Len(events) \in Sleeps
        /\ \A i \in Discoveries :
              C21_Resolved(i) =>
                 \/ i = Len(events)
                 \/ i = 1 /\ 2 \in Discoveries /\ network_info.interface_name = EmptyStr

\* An initialize that used its whole budget: a call by each resolver and
\* three by the retry loop, none of which found the gateway.
C21_Witness ==
    /\ lastOp.op = "initialize" /\ lastOp.ret
    /\ Cardinality(Discoveries) = 5 /\ Cardinality(Sleeps) = 3
    /\ GatewayUnresolved(network_info)

\* The durations of the waits of the last call, in order.
Waits == LET IsSleep(e) == e.call = "Sleep"
             w == SelectSeq(events, IsSleep)
         IN  [i \in 1..Len(w) |-> w[i].arg]

\* C22: the waits of one initialize, taken after the first, second and
\* third failed discovery attempt, are 500 ms, 1000 ms and 2000 ms, and
\* there are at most three.
C22_Backoff ==
    lastOp.op = "initialize" =>
        /\ Len(Waits) <= 3
        /\ Waits = SubSeq(<<500, 1000, 2000>>, 1, Len(Waits))

\* The discoverGatewayMac calls of a log that returned the empty string:
\* the gateway was not in the ARP table when the call first read it.
C23_Unanswered(ev) ==
    Cardinality({i \in 1..Len(ev) : ev[i].call = "discoverGatewayMac" /\ ev[i].ret = EmptyStr})

\* C23: a discover_gateway_mac that runs with a capture handle open and
\* does not find the gateway in the ARP table puts one ARP request for the
\* gateway to the capture library, whether it runs under start_poisoning
\* (refresh_gateway_mac) or under an initialize that keeps its handle; so
\* such a call accounts for at least one send attempt per unanswered lookup.
C23_DiscoveryRequests ==
    [][(/\ pcap_handle' # 0
        /\ \/ lastOp'.op = "initialize" /\ lastOp'.ret
           \/ lastOp'.op = "start_poisoning") =>
          perf_stats'.packets_sent - perf_stats.packets_sent >= C23_Unanswered(events')]_vars

\* A call that returned false having transmitted nothing and counted one
\* attempt and one error.
C24_CountedFailure ==
    /\ lifecycle' = "alive"
    /\ ~lastOp'.ret
    /\ sent' = <<>>
    /\ perf_stats'.packets_sent = perf_stats.packets_sent + 1
    /\ perf_stats'.send_errors = perf_stats.send_errors + 1

\* C24: on an initialized core without a capture handle, send_arp_request
\* and send_reply with valid arguments return false, transmit no frame and
\* increase packets_sent and send_errors by exactly 1.
C24_NoHandleSendCounts ==
    [][(is_initialized /\ pcap_handle = 0) =>
          /\ (SendArpRequest(VictimIp) /\ stringToIpTable[VictimIp].ok) => C24_CountedFailure
          /\ \A mac \in TargetMacs :
                (SendArpReply(VictimIp, mac) /\ C18_SixHexPairs(mac)) => C24_CountedFailure]_vars

\* C25: send_errors never exceeds packets_sent; over any call other than
\* reset_performance_stats neither counter decreases, packets_sent grows by
\* the number of transmission attempts and send_errors by the number of
\* those that failed, so that the frames transmitted are the attempts that
\* did not fail.
C25_Counters ==
    /\ [](perf_stats.send_errors <= perf_stats.packets_sent)
    /\ [][lastOp'.op # "reset_stats" =>
             /\ perf_stats'.packets_sent >= perf_stats.packets_sent
             /\ perf_stats'.send_errors >= perf_stats.send_errors
             /\ FailedAttempts <= Attempts
             /\ Len(sent') = Attempts - FailedAttempts]_vars

\* A start whose first send went out and whose second was refused: two
\* attempts and one error counted.
C25_Witness ==
    /\ lastOp.op = "start_poisoning" /\ ~lastOp.ret
    /\ perf_stats.packets_sent = 2 /\ perf_stats.send_errors = 1
    /\ Len(sent) = 1

\* C26: in every reachable state poisoning_active is true exactly when some
\* record of the target list is active.
C26_FlagIffActive == poisoning_active <=> AnyActive(poisoning_targets)

\* A stop that left one target stopped and another still active.
C26_Witness ==
    /\ lastOp.op = "stop_poisoning" /\ lastOp.ret
    /\ poisoning_active
    /\ \E i, j \in 1..Len(poisoning_targets) :
          poisoning_targets[i].is_active /\ ~poisoning_targets[j].is_active

\* The topology info describes adapter a of the system: its identity, its
\* IPv4 address and mask, its gateway and its MAC.
C27_Describes(info, a) ==
    /\ info.interface_name = a.AdapterName
    /\ Len(a.FirstUnicastAddress) > 0
    /\ info.local_ip = inet_ntopTable[a.FirstUnicastAddress[1].addr]
    /\ \E u \in UbShiftResults :
          info.subnet_mask = PrefixMaskTable[a.FirstUnicastAddress[1].OnLinkPrefixLength, u]
    /\ Len(a.FirstGatewayAddress) > 0
    /\ info.gateway_ip = inet_ntopTable[a.FirstGatewayAddress[1]]
    /\ info.interface_mac = macToStringTable[a.PhysicalAddress]

\* C27: after an initialize that returns true, from either resolver, the
\* stored topology carries the identity of the OS adapter it was built from
\* and that adapter's local IP, mask, gateway IP and MAC.
C27_TopologyOfOneAdapter ==
    [][\A n \in InitializeArgs, o \in InitScenarios :
          (InitializeStep(n, o) /\ lastOp'.ret) =>
              \E i \in 1..Len(o.adapters) : C27_Describes(network_info', o.adapters[i])]_vars

\* C28: between operations a held capture handle implies an initialized
\* core, and the handle held is the only one open: initialize never opens a
\* handle over one that is still open.
C28_HandleImpliesInitialized ==
    /\ pcap_handle # 0 => is_initialized
    /\ open_handles = (IF pcap_handle # 0 THEN {pcap_handle} ELSE {})

\* A second session: initialize succeeded with a handle on a core whose
\* target list dates from an earlier session that held one.
C28_Witness ==
    /\ lastOp.op = "initialize" /\ lastOp.ret
    /\ pcap_handle # 0 /\ open_handles = {pcap_handle}
    /\ Len(poisoning_targets) > 0

\* C29: in every reachable state an active target record implies an
\* initialized core holding a capture handle; no target stays active across
\* cleanup or a re-initialize.
C29_ActiveImpliesUsable ==
    AnyActive(poisoning_targets) => (is_initialized /\ pcap_handle # 0)

\* C29, its consequence: a start_poisoning that returns true has
\* transmitted the spoof pair in that call unless a start of the same
\* session (since the last initialize) already had.
C29_FreshSessionStartSends ==
    [][(lastOp.op = "initialize" /\ lastOp'.op = "start_poisoning" /\ lastOp'.ret) =>
          Len(sent') >= 2]_vars

\* C30: a start_poisoning that returns false because target_ip or
\* target_mac does not parse changes nothing: no record is appended, no
\* target becomes active, poisoning_active keeps its value and no frame is
\* transmitted.
C30_MalformedStartChangesNothing ==
    [][\A a \in StartArgs :
          (/\ StartArpPoisoning(a[1], a[2])
           /\ is_initialized /\ pcap_handle # 0
           /\ ~stringToIp(a[1]).ok \/ ~stringToMac(a[2]).ok
           /\ ~lastOp'.ret) =>
              /\ poisoning_targets' = poisoning_targets
              /\ poisoning_active' = poisoning_active
              /\ Len(sent') = 0]_vars
====
